---------------------------- MODULE Spec2Model ----------------------------
(***************************************************************************)
(* A model of lojoja/wake: the Host and Hosts classes of wake/wake.py, and *)
(* the configuration loader and the `host` command of wake/core.py.        *)
(*                                                                         *)
(* Python strings are sequences of one-character strings, so that slicing, *)
(* replacing, joining and case conversion are computed and not assumed.    *)
(* Python bytes are sequences of integers in 0..255.                       *)
(***************************************************************************)
EXTENDS Integers, Sequences, FiniteSets, TLC

(***************************************************************************)
(* Bounds of the model.                                                    *)
(***************************************************************************)
\* Generated addresses (beyond the addresses of the test suite).
NumGenAddrs == 1
\* Largest number of hosts a Hosts collection holds in the model.
MaxHosts == 3
\* Largest number of host names on one command line.
MaxNames == 3
\* Largest number of hosts in the loaded configuration.
MaxConfig == 2
\* The most hosts a list object holds in the model of shared lists.
MaxListLen == 2

(***************************************************************************)
(* str: characters, case conversion, replace, join.                        *)
(***************************************************************************)
LOWER == <<"a","b","c","d","e","f","g","h","i","j","k","l","m",
           "n","o","p","q","r","s","t","u","v","w","x","y","z">>
UPPER == <<"A","B","C","D","E","F","G","H","I","J","K","L","M",
           "N","O","P","Q","R","S","T","U","V","W","X","Y","Z">>
DIGITS == <<"0","1","2","3","4","5","6","7","8","9">>
HEXDIGITS == <<"0","1","2","3","4","5","6","7","8","9","A","B","C","D","E","F">>

Range(s) == {s[i] : i \in DOMAIN s}

\* str.upper() and str.lower(), one character (tables over the letters)
UpperTable == [c \in Range(LOWER) |-> UPPER[CHOOSE i \in DOMAIN LOWER : LOWER[i] = c]]
LowerTable == [c \in Range(UPPER) |-> LOWER[CHOOSE i \in DOMAIN UPPER : UPPER[i] = c]]
UpperChar(c) == IF c \in DOMAIN UpperTable THEN UpperTable[c] ELSE c
LowerChar(c) == IF c \in DOMAIN LowerTable THEN LowerTable[c] ELSE c
Upper(s) == [i \in DOMAIN s |-> UpperChar(s[i])]
Lower(s) == [i \in DOMAIN s |-> LowerChar(s[i])]

\* s.replace(ch, "")
Remove(s, ch) == SelectSeq(s, LAMBDA c : c # ch)

\* sep.join(parts)
RECURSIVE Join(_, _)
Join(sep, parts) ==
    IF parts = <<>> THEN <<>>
    ELSE IF Len(parts) = 1 THEN parts[1]
    ELSE parts[1] \o sep \o Join(sep, Tail(parts))

\* s * n
RECURSIVE Repeat(_, _)
Repeat(s, n) == IF n <= 0 THEN <<>> ELSE s \o Repeat(s, n - 1)

\* s[i : i + 2] for a 0-based i (a slice stops at the end of the string)
Slice2(s, i) == SubSeq(s, i + 1, IF i + 2 <= Len(s) THEN i + 2 ELSE Len(s))

\* the value of one hex digit (either case) and of one decimal digit
HexTable ==
    [c \in Range(HEXDIGITS) \cup {LowerChar(d) : d \in Range(HEXDIGITS)} |->
        (CHOOSE k \in DOMAIN HEXDIGITS : HEXDIGITS[k] = UpperChar(c)) - 1]
DigitTable == [c \in Range(DIGITS) |-> (CHOOSE k \in DOMAIN DIGITS : DIGITS[k] = c) - 1]
IsHexChar(c) == c \in DOMAIN HexTable
HexVal(c) == HexTable[c]
IsDigitChar(c) == c \in DOMAIN DigitTable
DigitVal(c) == DigitTable[c]

\* int(s, 16) of a string of hex digits
RECURSIVE IntHex(_)
IntHex(s) ==
    IF s = <<>> THEN 0
    ELSE 16 * IntHex(SubSeq(s, 1, Len(s) - 1)) + HexVal(s[Len(s)])
\* whether int(s, 16) returns (it raises ValueError otherwise)
IntHexOk(s) == s # <<>> /\ \A i \in DOMAIN s : IsHexChar(s[i])

\* int(s) of a string of decimal digits
RECURSIVE IntDec(_)
IntDec(s) ==
    IF s = <<>> THEN 0
    ELSE 10 * IntDec(SubSeq(s, 1, Len(s) - 1)) + DigitVal(s[Len(s)])

(***************************************************************************)
(* wake/wake.py: module constants.                                         *)
(***************************************************************************)
MAC_REPLACE == <<".", "-", ":">>
MAC_SEPARATOR == <<":">>
PORT_MIN == 0
PORT_MAX == 65535
DEFAULT_PORT == 9
DEFAULT_IP == <<"2","5","5",".","2","5","5",".","2","5","5",".","2","5","5">>

\* MAC_PATTERN.match(s): the pattern is anchored at the start only, so a
\* match is a match of a prefix of s.  The group ([:]) always captures ":",
\* so the back-reference \1 is ":".  re.IGNORECASE accepts a-f and A-F.
MAC_PATTERN(s) ==
    /\ Len(s) >= 17
    /\ \A i \in 1..17 : IF i % 3 = 0 THEN s[i] = ":" ELSE IsHexChar(s[i])

(***************************************************************************)
(* wake/wake.py: class Host.                                               *)
(***************************************************************************)
\* A variant of the loop of Host.__init__ that turns "-" into ":" instead of
\* removing it (the normalisation of HostSchema.format_mac in wake/core.py).
ReplaceSeparators(mac, k) ==
    [i \in DOMAIN Remove(mac, ".") |->
        IF Remove(mac, ".")[i] = "-" THEN ":" ELSE Remove(mac, ".")[i]]

\* The loop of Host.__init__ over MAC_REPLACE: every separator is removed.
RECURSIVE StripSeparators(_, _)
StripSeparators(mac, k) ==
    IF k > Len(MAC_REPLACE) THEN mac
    ELSE StripSeparators(
            IF MAC_REPLACE[k] \in Range(mac) THEN Remove(mac, MAC_REPLACE[k]) ELSE mac,
            k + 1)

\* Host.__init__: the value stored in self._mac
NormalizeMac(mac) ==
    LET stripped == StripSeparators(mac, 1) IN
    IF Len(stripped) = 12
    THEN Join(MAC_SEPARATOR, [k \in 1..6 |-> Slice2(stripped, 2 * (k - 1))])
    ELSE stripped

\* Host(name, mac, ip, port)
Host(name, mac, ip, port) ==
    [name |-> name, ip |-> ip, port |-> port, _mac |-> NormalizeMac(mac)]

\* A mac property that returns the stored value as it is.
mac_as_stored(h) == h._mac

\* the property Host.mac
Mac(h) == Upper(h._mac)

\* s.split(".")
RECURSIVE Split(_, _)
Split(s, ch) ==
    IF ch \notin Range(s) THEN <<s>>
    ELSE LET p == CHOOSE i \in DOMAIN s :
                    s[i] = ch /\ \A j \in 1..(i - 1) : s[j] # ch
         IN <<SubSeq(s, 1, p - 1)>> \o Split(SubSeq(s, p + 1, Len(s)), ch)

\* ipaddress.IPv4Address(s) for a str s returns (it raises AddressValueError
\* otherwise): four dot-separated octets, each one to three decimal digits
\* without a leading zero, of value at most 255.
IPv4Address(s) ==
    LET octets == Split(s, ".") IN
    /\ Len(octets) = 4
    /\ \A k \in 1..4 :
          /\ octets[k] # <<>>
          /\ \A i \in DOMAIN octets[k] : IsDigitChar(octets[k][i])
          /\ Len(octets[k]) <= 3
          /\ (octets[k] # <<"0">> => octets[k][1] # "0")
          /\ IntDec(octets[k]) <= 255

\* Each _validate_* method: the messages it raises ValueError with (none when
\* it returns).
validate_ip(h) == IF IPv4Address(h.ip) THEN <<>> ELSE <<"Invalid IPv4 Address">>
validate_mac(h) == IF MAC_PATTERN(h._mac) THEN <<>> ELSE <<"Invalid MAC Address">>
validate_name(h) == IF h.name = <<>> THEN <<"Invalid name">> ELSE <<>>

\* A port check that rejects the upper end of the range.
validate_port_exclusive(h) ==
    IF PORT_MIN <= h.port /\ h.port < PORT_MAX THEN <<>> ELSE <<"Invalid port">>

validate_port(h) ==
    IF PORT_MIN <= h.port /\ h.port <= PORT_MAX THEN <<>> ELSE <<"Invalid port">>

\* A validate() that stops at the first failing check.
validate_first_only(h) ==
    LET all == validate_ip(h) \o validate_mac(h) \o validate_name(h) \o validate_port(h)
    IN  IF all = <<>> THEN <<>> ELSE <<all[1]>>

\* Host.validate(): dir(self) lists the methods in alphabetical order
\* (_validate_ip, _validate_mac, _validate_name, _validate_port); every one
\* is called and its message appended.  The result is the list `errors`;
\* validate raises ValueError(errors) iff it is not empty.
validate(h) ==
    validate_ip(h) \o validate_mac(h) \o validate_name(h) \o validate_port(h)

\* The loop of Host.magic_packet: every two characters of data become one
\* byte, struct.pack("B", int(data[i : i + 2], 16)).  The result is the
\* packet, or ValueError when int(.., 16) rejects a chunk.
Pack(data) ==
    LET n == (Len(data) + 1) \div 2 IN
    IF \A k \in 1..n : IntHexOk(Slice2(data, 2 * (k - 1)))
    THEN [raised |-> "none",
          packet |-> [k \in 1..n |-> IntHex(Slice2(data, 2 * (k - 1)))]]
    ELSE [raised |-> "ValueError", packet |-> <<>>]

\* Host.magic_packet: data is "FF" * 6 followed by the MAC without its
\* separators, repeated.
magic_packet(h) ==
    Pack(Repeat(<<"F", "F">>, 6) \o Repeat(Remove(Mac(h), MAC_SEPARATOR[1]), 20))

(***************************************************************************)
(* Inputs of the Host specification.                                       *)
(***************************************************************************)
\* 6-byte addresses: the addresses of the test suite and generated ones.
GenAddr(k) == [i \in 1..6 |-> (k * 97 + i * k * 29 + i * 43) % 256]
Addrs ==
    { <<170, 187, 204, 0, 17, 34>>, <<0, 17, 34, 51, 68, 85>> }
        \cup { GenAddr(k) : k \in 1..NumGenAddrs }

\* The two hex digits of a byte, upper case.
HexByte(b) == <<HEXDIGITS[(b \div 16) + 1], HEXDIGITS[(b % 16) + 1]>>

Styles == {"colon", "dash", "dot", "dot4", "bare"}
Cases == {"upper", "lower"}

\* The spelling of an address in a separator style and a letter case.
Spell(addr, style, case) ==
    LET pairs == [k \in 1..6 |-> HexByte(addr[k])]
        quads == [k \in 1..3 |-> pairs[2 * k - 1] \o pairs[2 * k]]
        up == CASE style = "colon" -> Join(<<":">>, pairs)
                [] style = "dash"  -> Join(<<"-">>, pairs)
                [] style = "dot"   -> Join(<<".">>, pairs)
                [] style = "dot4"  -> Join(<<".">>, quads)
                [] style = "bare"  -> Join(<<>>, pairs)
    IN  IF case = "lower" THEN Lower(up) ELSE up

\* The canonical form of an address: 12 upper-case hex digits in six pairs
\* separated by ":".
Canonical(addr) ==
    [i \in 1..17 |->
        IF i % 3 = 0 THEN ":" ELSE HexByte(addr[(i + 2) \div 3])[i % 3]]

\* A string is in canonical shape: exactly 17 characters, ":" at every third
\* place and an upper-case hex digit everywhere else.
CanonicalShape(s) ==
    /\ Len(s) = 17
    /\ \A i \in 1..17 :
          IF i % 3 = 0 THEN s[i] = ":"
          ELSE \E k \in DOMAIN HEXDIGITS : HEXDIGITS[k] = s[i]

WellFormedMacs == { Spell(a, st, c) : a \in Addrs, st \in Styles, c \in Cases }

\* Malformed spellings: one character inserted, deleted or replaced.
EditChars == {"A", "Z", ":"}
Insert(s, p, c) == SubSeq(s, 1, p) \o <<c>> \o SubSeq(s, p + 1, Len(s))
Delete(s, p) == SubSeq(s, 1, p - 1) \o SubSeq(s, p + 1, Len(s))
Replace(s, p, c) == [s EXCEPT ![p] = c]
EditedMacs ==
    UNION { { Insert(s, p, c) : p \in 0..Len(s), c \in EditChars }
            \cup { Delete(s, p) : p \in 1..Len(s) }
            \cup { Replace(s, p, c) : p \in 1..Len(s), c \in EditChars }
          : s \in WellFormedMacs }

MAC_TEST == <<"A","A",":","B","B",":","C","C",":","0","0",":","1","1",":","2","2">>
MAC_TEST_ZZ == <<"Z","Z",":","B","B",":","C","C",":","0","0",":","1","1",":","2","2">>
MAC_TEST_DOT4 == <<"a","a","b","b",".","c","c","0","0",".","1","1","2","2">>

MacInputs == WellFormedMacs \cup EditedMacs \cup {<<>>, MAC_TEST_ZZ}

NAME_FOO == <<"f","o","o">>
IP_LOCAL == <<"1","2","7",".","0",".","0",".","1">>
IP_BAD == <<"1","2","7",".","0",".","0",".","x">>
IP_256 == <<"2","5","6",".","0",".","0",".","1">>
IP_SHORT == <<"1",".","2",".","3">>

NameInputs == {<<>>, NAME_FOO}
IpInputs == {IP_LOCAL, IP_BAD, IP_256, IP_SHORT, DEFAULT_IP}
PortInputs ==
    {PORT_MIN - 1, PORT_MIN, 7, DEFAULT_PORT, PORT_MAX - 1, PORT_MAX, PORT_MAX + 1}

\* The arguments of Host(...): every combination of a few values of each
\* field, and every MAC input with the other arguments left at their defaults.
HostInputs ==
    { <<n, m, i, p>> : n \in NameInputs,
                       m \in {MAC_TEST, MAC_TEST_ZZ, MAC_TEST_DOT4, MAC_TEST \o <<"A">>},
                       i \in IpInputs, p \in PortInputs }
        \cup { <<<<>>, m, DEFAULT_IP, DEFAULT_PORT>> : m \in MacInputs }

(***************************************************************************)
(* State.                                                                  *)
(***************************************************************************)
VARIABLES
    raw_mac,     \* the mac argument the host was constructed from
    host,        \* the Host object (NoHost before construction)
    validated,   \* outcome of host.validate(): "none", "returned", "ValueError"
    errors,      \* the message list validate() raised ValueError with
    packet,      \* outcome of host.magic_packet (NoPacket before the call)
    \* ---- a Hosts collection (wake/wake.py)
    made,        \* whether the collection has been constructed
    hosts,       \* Hosts._hosts
    ctor_hosts,  \* history: the hosts the constructor was given
    added,       \* history: the hosts passed to add(), in call order
    last_op,     \* history: the last call, "none", "init", "add" or "get"
    query,       \* the name of the last get(name)
    got,         \* the result of the last get(name): a position, 0 for None
    \* ---- one run of the `host` command (wake/core.py)
    pc,          \* "idle", "wake" (in the dispatch loop), "done"
    config,      \* ctx.obj.config.data: the loaded hosts
    hostnames,   \* the command's arguments
    hosts_to_wake,
    next_host,   \* position in hosts_to_wake of the next host to wake
    log,         \* the log records emitted (warning, info, error)
    sockets,     \* the sockets opened: the options set on each
    calls,       \* the sendto calls made, failed ones included
    sent,        \* the datagrams sent
    trace,       \* history: what the dispatch did on the outside, in order
    exit_code,   \* the command's exit code (-1 while running)
    \* ---- one Configuration.load (wake/core.py)
    raw_config,  \* the data read from the configuration file
    load_outcome, \* "none", "returned", "returned None", "ClickException"
    loaded,      \* the hosts load() returned
    load_log,    \* the log records load() emitted
    \* ---- list objects and the Hosts registries that refer to them
    heap,        \* the list objects: heap[id] is the contents of list id
    reg,         \* for each registry, the list its _hosts attribute resolves to
    reg_kind,    \* how each registry was constructed ("unbound" before)
    view,        \* the list the caller holds a reference to (0: none)
    view_of,     \* the registry whose get_all() returned `view` ("none")
    heap_op      \* history: the last call on the heap and its registry

hostVars == <<raw_mac, host, validated, errors, packet>>
hostsVars == <<made, hosts, ctor_hosts, added, last_op, query, got>>
cliVars == <<pc, config, hostnames, hosts_to_wake, next_host, log, sockets,
             calls, sent, trace, exit_code>>
loadVars == <<raw_config, load_outcome, loaded, load_log>>
heapVars == <<heap, reg, reg_kind, view, view_of, heap_op>>
vars == <<hostVars, hostsVars, cliVars, loadVars, heapVars>>

NoHost == [name |-> <<>>, ip |-> <<>>, port |-> -1, _mac |-> <<"none">>]
NoPacket == [raised |-> "not called", packet |-> <<>>]

HostIdle ==
    /\ raw_mac = <<>>
    /\ host = NoHost
    /\ validated = "none"
    /\ errors = <<>>
    /\ packet = NoPacket

\* host = Host(name, mac, ip, port)
HostInit ==
    /\ host = NoHost
    /\ \E in \in HostInputs :
          /\ raw_mac' = in[2]
          /\ host' = Host(in[1], in[2], in[3], in[4])
    /\ UNCHANGED <<validated, errors, packet>>
    /\ UNCHANGED <<hostsVars, cliVars, loadVars, heapVars>>

\* host.validate()
Validate ==
    /\ host # NoHost
    /\ validated = "none"
    /\ errors' = validate(host)
    /\ validated' = IF validate(host) = <<>> THEN "returned" ELSE "ValueError"
    /\ UNCHANGED <<raw_mac, host, packet>>
    /\ UNCHANGED <<hostsVars, cliVars, loadVars, heapVars>>

\* host.magic_packet
MagicPacket ==
    /\ host # NoHost
    /\ packet = NoPacket
    /\ packet' = magic_packet(host)
    /\ UNCHANGED <<raw_mac, host, validated, errors>>
    /\ UNCHANGED <<hostsVars, cliVars, loadVars, heapVars>>

(***************************************************************************)
(* wake/wake.py: class Hosts.                                              *)
(***************************************************************************)
NAME_FOO_UPPER == <<"F","O","O">>
NAME_BAR == <<"b","a","r">>
NAME_X == <<"x">>
NAME_ALL == <<"a","l","l">>
MAC_FIXTURE_FOO == <<"0","0",":","1","1",":","2","2",":","3","3",":","4","4",":","5","5">>
MAC_FIXTURE_BAR == <<"A","A",":","B","B",":","C","C",":","D","D",":","E","E",":","F","F">>

\* The hosts put into collections: names that differ in case only, and two
\* hosts of the same name that differ in their MAC.
HostPool ==
    { Host(NAME_FOO, MAC_FIXTURE_FOO, DEFAULT_IP, DEFAULT_PORT),
      Host(NAME_FOO_UPPER, MAC_FIXTURE_BAR, DEFAULT_IP, DEFAULT_PORT),
      Host(NAME_FOO, MAC_FIXTURE_BAR, DEFAULT_IP, DEFAULT_PORT),
      Host(NAME_BAR, MAC_FIXTURE_BAR, DEFAULT_IP, DEFAULT_PORT) }

QueryNames == {NAME_FOO, NAME_FOO_UPPER, NAME_BAR, NAME_X, <<>>}

\* All sequences over S of length at most n.
SeqsUpTo(S, n) == UNION { [1..k -> S] : k \in 0..n }

\* The argument of Hosts(hosts): None, one Host, or a list of Hosts.
CtorArgs ==
    { [kind |-> "None", value |-> <<>>] }
        \cup { [kind |-> "Host", value |-> <<h>>] : h \in HostPool }
        \cup { [kind |-> "list", value |-> l] : l \in SeqsUpTo(HostPool, MaxHosts - 1) }

\* Hosts.__init__: the value of self._hosts (None becomes [], a single Host h,
\* carried in the argument as <<h>>, becomes [h], a list is taken as it is)
HostsNew(arg) ==
    IF arg.kind = "None" THEN <<>>
    ELSE IF arg.kind = "Host" THEN <<arg.value[1]>>
    ELSE arg.value

\* An add that puts the host in front.
add_front(hs, h) == <<h>> \o hs

\* Hosts.add: self._hosts after the call
add(hs, h) == Append(hs, h)

\* Hosts.count
count(hs) == Len(hs)

\* A get that compares the names as they are.
get_case_sensitive(hs, name) ==
    IF \E i \in DOMAIN hs : hs[i].name = name
    THEN CHOOSE i \in DOMAIN hs :
            hs[i].name = name /\ \A j \in 1..(i - 1) : hs[j].name # name
    ELSE 0

\* Hosts.get: next(...) over the generator takes the hosts in list order and
\* returns the first whose lower-cased name equals the lower-cased argument,
\* None (0) when the generator is exhausted.
RECURSIVE get_from(_, _, _)
get_from(hs, name, i) ==
    IF i > Len(hs) THEN 0
    ELSE IF Lower(hs[i].name) = Lower(name) THEN i
    ELSE get_from(hs, name, i + 1)

get(hs, name) == get_from(hs, name, 1)

HostsIdle ==
    /\ made = FALSE
    /\ hosts = <<>>
    /\ ctor_hosts = <<>>
    /\ added = <<>>
    /\ last_op = "none"
    /\ query = <<>>
    /\ got = 0

\* registry = Hosts(arg)
HostsInit ==
    /\ ~made
    /\ \E arg \in CtorArgs :
          /\ hosts' = HostsNew(arg)
          /\ ctor_hosts' = arg.value
    /\ made' = TRUE
    /\ last_op' = "init"
    /\ UNCHANGED <<added, query, got>>
    /\ UNCHANGED <<hostVars, cliVars, loadVars, heapVars>>

\* registry.add(h)
HostsAdd ==
    /\ made
    /\ Len(hosts) < MaxHosts
    /\ \E h \in HostPool :
          /\ hosts' = add(hosts, h)
          /\ added' = Append(added, h)
    /\ last_op' = "add"
    /\ UNCHANGED <<made, ctor_hosts, query, got>>
    /\ UNCHANGED <<hostVars, cliVars, loadVars, heapVars>>

\* registry.get(name)
HostsGet ==
    /\ made
    /\ \E name \in QueryNames :
          /\ query' = name
          /\ got' = get(hosts, name)
    /\ last_op' = "get"
    /\ UNCHANGED <<made, hosts, ctor_hosts, added>>
    /\ UNCHANGED <<hostVars, cliVars, loadVars, heapVars>>

(***************************************************************************)
(* wake/core.py: the `host` command.                                       *)
(***************************************************************************)
EXIT_OK == 0
\* click.ClickException.exit_code; also the exit status of an exception that
\* click does not handle
EXIT_ERROR == 1
\* click.UsageError.exit_code
EXIT_USAGE == 2

\* The log records the command line emits.
LogUnknown(name) == [level |-> "warning", msg |-> "Unknown host", name |-> name]
LogWaking(name) == [level |-> "info", msg |-> "Waking host", name |-> name]
LogError(msg) == [level |-> "error", msg |-> msg, name |-> <<>>]

\* core.Host(schema): a loaded host
CoreHost(name, mac, ip, port) == [name |-> name, ip |-> ip, mac |-> mac, port |-> port]

(***************************************************************************)
(* wake/core.py: HostSchema and Configuration.load.                        *)
(*                                                                         *)
(* A host record of the configuration file is a JSON object: a record      *)
(* whose DOMAIN is the set of keys it carries.  setup.py pins marshmallow  *)
(* 3.14.1, whose Schema.load raises ValidationError for a key that is no   *)
(* field of the schema (Meta.unknown is RAISE unless the schema sets it),  *)
(* checks a field's validator on the loaded value (the `missing` default   *)
(* when the key is absent) and runs post_load only when nothing failed.    *)
(***************************************************************************)
MAC_DASH_BAR == <<"a","a","-","b","b","-","c","c","-","d","d","-","e","e","-","f","f">>
MAC_DOT4_BAR == <<"a","a","b","b",".","c","c","d","d",".","e","e","f","f">>
MAC_DOT_BAR == <<"a","a",".","b","b",".","c","c",".","d","d",".","e","e",".","f","f">>

\* The host records configurations are made of, by position.
RawPool ==
    << [name |-> NAME_FOO, mac |-> MAC_FIXTURE_FOO],
       [name |-> NAME_BAR, mac |-> MAC_DASH_BAR, ip |-> IP_LOCAL, port |-> 7],
       [mac |-> MAC_DOT4_BAR],
       [name |-> <<>>, mac |-> MAC_FIXTURE_BAR],
       [name |-> NAME_FOO, mac |-> MAC_FIXTURE_BAR \o <<"x">>],
       [name |-> NAME_FOO, mac |-> MAC_FIXTURE_FOO, x |-> <<"y">>],
       [name |-> NAME_BAR, mac |-> MAC_FIXTURE_BAR, ip |-> IP_BAD],
       [name |-> NAME_BAR, mac |-> MAC_FIXTURE_BAR, port |-> PORT_MAX + 1],
       [name |-> NAME_FOO],
       [name |-> NAME_FOO, mac |-> MAC_DOT_BAR] >>

\* All sequences over S of length at most n (S a set of numbers).
IndexLists(S, n) == UNION { [1..k -> S] : k \in 0..n }

\* The configuration data: a list of at most MaxConfig host records.
RawConfigs ==
    { [k \in DOMAIN ix |-> RawPool[ix[k]]] : ix \in IndexLists(DOMAIN RawPool, MaxConfig) }

SchemaFields == {"name", "ip", "mac", "port"}

\* The value a field loads to: the record's, or the field's `missing` default.
Loaded(raw, key, default) == IF key \in DOMAIN raw THEN raw[key] ELSE default

\* HostSchema.validate_mac: the regular expression, anchored at both ends,
\* accepts six pairs separated by one and the same of "-" and ":", three
\* dot-separated groups of four, or twelve hex digits.
core_validate_mac(s) ==
    \/ /\ Len(s) = 17
       /\ s[3] \in {"-", ":"}
       /\ \A i \in 1..17 : IF i % 3 = 0 THEN s[i] = s[3] ELSE IsHexChar(s[i])
    \/ /\ Len(s) = 14
       /\ \A i \in 1..14 : IF i % 5 = 0 THEN s[i] = "." ELSE IsHexChar(s[i])
    \/ /\ Len(s) = 12
       /\ \A i \in 1..12 : IsHexChar(s[i])

\* HostSchema.validate_port
core_validate_port(p) == 0 <= p /\ p <= 65535

\* HostSchema.format_mac (post_load)
format_mac(mac) ==
    LET m == IF "." \in Range(mac) THEN Remove(mac, ".")
             ELSE IF "-" \in Range(mac)
                  THEN [i \in DOMAIN mac |-> IF mac[i] = "-" THEN ":" ELSE mac[i]]
                  ELSE mac
    IN  Upper(IF Len(m) = 12
              THEN Join(<<":">>, [k \in 1..6 |-> Slice2(m, 2 * (k - 1))])
              ELSE m)

\* The keys Schema.load rejects as unknown fields.
UnknownKeys(raw) == DOMAIN raw \ SchemaFields

\* schema.load(raw_host): the keys of ValidationError.messages (empty when the
\* record loads)
SchemaErrors(raw) ==
    UnknownKeys(raw)
        \cup (IF IPv4Address(Loaded(raw, "ip", DEFAULT_IP)) THEN {} ELSE {"ip"})
        \cup (IF core_validate_mac(Loaded(raw, "mac", <<>>)) THEN {} ELSE {"mac"})
        \cup (IF core_validate_port(Loaded(raw, "port", DEFAULT_PORT)) THEN {} ELSE {"port"})

\* Host(schema.load(raw_host)) for a record that loads
SchemaHost(raw) ==
    CoreHost(Loaded(raw, "name", <<>>), format_mac(Loaded(raw, "mac", <<>>)),
             Loaded(raw, "ip", DEFAULT_IP), Loaded(raw, "port", DEFAULT_PORT))

\* load(): the warning for the record at 0-based position idx; it is named by
\* raw_host.get('name', idx)
LogInvalid(raw, idx) ==
    [level |-> "warning", msg |-> "Invalid host definition",
     name |-> Loaded(raw, "name", <<DIGITS[idx + 1]>>)]

\* load(): the loop over the records; the hosts appended to `loaded`
RECURSIVE LoadHosts(_)
LoadHosts(data) ==
    IF data = <<>> THEN <<>>
    ELSE LoadHosts(SubSeq(data, 1, Len(data) - 1))
            \o (IF SchemaErrors(data[Len(data)]) = {}
                THEN <<SchemaHost(data[Len(data)])>> ELSE <<>>)

\* load(): the loop over the records; the warnings logged
RECURSIVE LoadLog(_)
LoadLog(data) ==
    IF data = <<>> THEN <<>>
    ELSE LoadLog(SubSeq(data, 1, Len(data) - 1))
            \o (IF SchemaErrors(data[Len(data)]) = {}
                THEN <<>> ELSE <<LogInvalid(data[Len(data)], Len(data) - 1)>>)

\* load(): whether it raises ClickException('There are no valid hosts
\* defined') after the loop
load_raises(data) == LoadHosts(data) = <<>>

\* The data of a configuration file: a list of host records, null (a file
\* without hosts) or a value that is no list.
ListData(items) == [kind |-> "list", items |-> items]
ConfigData ==
    { ListData(c) : c \in RawConfigs }
        \cup { [kind |-> k, items |-> <<>>] : k \in {"null", "object"} }

\* Configuration.load(data): what it returns or raises, and what it logs
\* (main() logs the message of a ClickException as an error)
load(data) ==
    CASE data.kind = "null" ->
            [outcome |-> "returned None", hosts |-> <<>>, log |-> <<>>]
      [] data.kind = "object" ->
            [outcome |-> "ClickException", hosts |-> <<>>,
             log |-> <<LogError("Invalid configuration data, config root must be a list")>>]
      [] data.kind = "list" /\ load_raises(data.items) ->
            [outcome |-> "ClickException", hosts |-> <<>>,
             log |-> LoadLog(data.items)
                        \o <<LogError("There are no valid hosts defined")>>]
      [] OTHER ->
            [outcome |-> "returned", hosts |-> LoadHosts(data.items),
             log |-> LoadLog(data.items)]

LoadIdle ==
    /\ raw_config = ListData(<<>>)
    /\ load_outcome = "none"
    /\ loaded = <<>>
    /\ load_log = <<>>

\* config.data = config.load(config.read())
LoadConfig ==
    /\ load_outcome = "none"
    /\ \E data \in ConfigData :
          /\ raw_config' = data
          /\ load_outcome' = load(data).outcome
          /\ loaded' = load(data).hosts
          /\ load_log' = load(data).log
    /\ UNCHANGED <<hostVars, hostsVars, cliVars, heapVars>>

\* ctx.obj.config.data when the `host` command runs: a list Configuration.load
\* has returned (when load raises, the command is never entered).
Configs ==
    { load(d).hosts : d \in { c \in ConfigData : load(c).outcome = "returned" } }

ArgNames == {NAME_FOO, NAME_BAR, NAME_X, NAME_ALL}
ArgLists == SeqsUpTo(ArgNames, MaxNames)

\* Host.create_magic_packet
create_magic_packet(h) ==
    Pack(Repeat(<<"F", "F">>, 6) \o Repeat(Remove(h.mac, ":"), 20))

\* Configuration.find_host: the position of the first host whose lower-cased
\* name equals the lower-cased argument, 0 for None
RECURSIVE find_host_from(_, _, _)
find_host_from(data, name, i) ==
    IF i > Len(data) THEN 0
    ELSE IF Lower(data[i].name) = Lower(name) THEN i
    ELSE find_host_from(data, name, i + 1)

find_host(data, name) == find_host_from(data, name, 1)

\* host(): `len(hostnames) == 1 and hostnames[0].lower() == 'all'`
AllRequested(names) == Len(names) = 1 /\ Lower(names[1]) = NAME_ALL

\* host(): the loop over hostnames; the hosts found, in argument order
RECURSIVE Resolve(_, _)
Resolve(data, names) ==
    IF names = <<>> THEN <<>>
    ELSE LET i == find_host(data, names[1]) IN
         (IF i = 0 THEN <<>> ELSE <<data[i]>>) \o Resolve(data, Tail(names))

\* host(): the warnings of the loop over hostnames, in argument order
RECURSIVE ResolveLog(_, _)
ResolveLog(data, names) ==
    IF names = <<>> THEN <<>>
    ELSE (IF find_host(data, names[1]) = 0 THEN <<LogUnknown(names[1])>> ELSE <<>>)
            \o ResolveLog(data, Tail(names))

\* host(): hosts_to_wake
Targets(data, names) ==
    IF AllRequested(names) THEN data ELSE Resolve(data, names)

CliIdle ==
    /\ pc = "idle"
    /\ config = <<>>
    /\ hostnames = <<>>
    /\ hosts_to_wake = <<>>
    /\ next_host = 1
    /\ log = <<>>
    /\ sockets = <<>>
    /\ calls = <<>>
    /\ sent = <<>>
    /\ trace = <<>>
    /\ exit_code = -1

\* `wake host NAMES...` up to the dispatch loop: no names is a usage error;
\* the names are resolved; no host to wake is a ClickException.
HostCommand ==
    /\ pc = "idle"
    /\ \E data \in Configs, names \in ArgLists :
          /\ config' = data
          /\ hostnames' = names
          /\ IF names = <<>>
             THEN /\ hosts_to_wake' = <<>>
                  /\ log' = <<LogError("No host(s) specified")>>
                  /\ exit_code' = EXIT_USAGE
                  /\ pc' = "done"
             ELSE /\ hosts_to_wake' = Targets(data, names)
                  /\ IF Targets(data, names) = <<>>
                     THEN /\ log' = (IF AllRequested(names) THEN <<>>
                                     ELSE ResolveLog(data, names))
                                        \o <<LogError("No known hosts to wake")>>
                          /\ exit_code' = EXIT_ERROR
                          /\ pc' = "done"
                     ELSE /\ log' = (IF AllRequested(names) THEN <<>>
                                     ELSE ResolveLog(data, names))
                          /\ exit_code' = -1
                          /\ pc' = "wake"
    /\ UNCHANGED <<next_host, sockets, calls, sent, trace>>
    /\ UNCHANGED <<hostVars, hostsVars, loadVars, heapVars>>

\* A datagram that always goes to the default port.
datagram_default_port(h) ==
    [payload |-> create_magic_packet(h).packet, ip |-> h.ip, port |-> DEFAULT_PORT]

\* The datagram of host.wake(): sendto(magic_packet, (ip, port))
Datagram(h) == [payload |-> create_magic_packet(h).packet, ip |-> h.ip, port |-> h.port]

\* A loop that goes on to the next host after a failed send.
ContinueAfterSendError(i) == i + 1

\* The position the dispatch loop is at after the send to host i has raised
\* OSError: nothing in host() or Host.wake catches it, so the loop is left.
AfterSendError(i) == Len(hosts_to_wake) + 1

\* Host.wake for the host at position i, in statement order: the log line, a
\* new socket, SO_BROADCAST set on it, sendto on it (socket: the socket's
\* position in `sockets`).
WakeEvents(i, sock, ok) ==
    << [ev |-> "log", host |-> i, socket |-> 0],
       [ev |-> "socket", host |-> i, socket |-> sock],
       [ev |-> "setsockopt", host |-> i, socket |-> sock],
       [ev |-> IF ok THEN "sendto" ELSE "sendto raises", host |-> i, socket |-> sock] >>

\* One iteration of `for host in hosts_to_wake: host.wake()` in which sendto
\* returns: the log line, a new socket with SO_BROADCAST set, the datagram.
WakeSent ==
    /\ pc = "wake"
    /\ next_host <= Len(hosts_to_wake)
    /\ LET h == hosts_to_wake[next_host] IN
          /\ log' = Append(log, LogWaking(h.name))
          /\ sockets' = Append(sockets, {"SO_BROADCAST"})
          /\ calls' = Append(calls, [host |-> next_host, ok |-> TRUE])
          /\ sent' = Append(sent, Datagram(h))
          /\ trace' = trace \o WakeEvents(next_host, Len(sockets) + 1, TRUE)
    /\ next_host' = next_host + 1
    /\ UNCHANGED <<pc, config, hostnames, hosts_to_wake, exit_code>>
    /\ UNCHANGED <<hostVars, hostsVars, loadVars, heapVars>>

\* One iteration in which sendto raises OSError: the exception leaves wake(),
\* the loop and the command.
WakeSendFails ==
    /\ pc = "wake"
    /\ next_host <= Len(hosts_to_wake)
    /\ LET h == hosts_to_wake[next_host] IN
          /\ log' = Append(log, LogWaking(h.name))
          /\ sockets' = Append(sockets, {"SO_BROADCAST"})
          /\ calls' = Append(calls, [host |-> next_host, ok |-> FALSE])
          /\ trace' = trace \o WakeEvents(next_host, Len(sockets) + 1, FALSE)
    /\ next_host' = AfterSendError(next_host)
    /\ IF AfterSendError(next_host) > Len(hosts_to_wake)
       THEN pc' = "done" /\ exit_code' = EXIT_ERROR
       ELSE UNCHANGED <<pc, exit_code>>
    /\ UNCHANGED <<config, hostnames, hosts_to_wake, sent>>
    /\ UNCHANGED <<hostVars, hostsVars, loadVars, heapVars>>

\* The loop is over: the command returns.
HostReturn ==
    /\ pc = "wake"
    /\ next_host > Len(hosts_to_wake)
    /\ pc' = "done"
    /\ exit_code' = EXIT_OK
    /\ UNCHANGED <<config, hostnames, hosts_to_wake, next_host, log, sockets, calls,
                   sent, trace>>
    /\ UNCHANGED <<hostVars, hostsVars, loadVars, heapVars>>

(***************************************************************************)
(* Specifications.                                                         *)
(***************************************************************************)
(* wake/wake.py: Hosts registries as references to list objects.           *)
(*                                                                         *)
(* A Python list is an object: two names bound to the same list see each   *)
(* other's changes.  heap holds the list objects by identity, and each     *)
(* operation of Hosts is given the heap and the list `self._hosts`         *)
(* resolves to, and yields the heap and the list it binds or returns.      *)
(***************************************************************************)
\* The list object of the class attribute `_hosts: list[Host] = []`, which an
\* instance without an attribute of its own resolves `self._hosts` to.
CLASS_HOSTS == 1

Registries == {"a", "b"}

HeapHosts ==
    { Host(NAME_FOO, MAC_FIXTURE_FOO, DEFAULT_IP, DEFAULT_PORT),
      Host(NAME_BAR, MAC_FIXTURE_BAR, DEFAULT_IP, DEFAULT_PORT) }

\* A new list object with the given contents: the heap and the new identity.
NewList(h, contents) == [heap |-> Append(h, contents), ref |-> Len(h) + 1]

\* An __init__ that leaves the class-level list in place when given None.
init_keeps_class_list(h, arg, given) ==
    IF arg.kind = "None" THEN [heap |-> h, ref |-> CLASS_HOSTS]
    ELSE IF arg.kind = "Host" THEN NewList(h, HostsNew(arg))
    ELSE [heap |-> h, ref |-> given]

\* Hosts.__init__: the list self._hosts is bound to.  `hosts = []` and
\* `[hosts]` are new lists; a list argument (the list `given`) is bound as it
\* is.
hosts_init(h, arg, given) ==
    IF arg.kind \in {"None", "Host"} THEN NewList(h, HostsNew(arg))
    ELSE [heap |-> h, ref |-> given]

\* A get_all that returns a copy of the list.
get_all_copy(h, ref) == NewList(h, h[ref])

\* Hosts.get_all: return self._hosts
get_all(h, ref) == [heap |-> h, ref |-> ref]

HeapIdle ==
    /\ heap = << <<>> >>
    /\ reg = [r \in Registries |-> CLASS_HOSTS]
    /\ reg_kind = [r \in Registries |-> "unbound"]
    /\ view = 0
    /\ view_of = "none"
    /\ heap_op = [op |-> "none", reg |-> "none"]

\* r = Hosts() or r = Hosts(host)
HeapInit ==
    /\ \E r \in Registries :
          /\ reg_kind[r] = "unbound"
          /\ \E arg \in { a \in CtorArgs : a.kind \in {"None", "Host"}
                                           /\ Range(a.value) \subseteq HeapHosts } :
                LET res == hosts_init(heap, arg, 0)
                IN  /\ heap' = res.heap
                    /\ reg' = [reg EXCEPT ![r] = res.ref]
                    /\ reg_kind' = [reg_kind EXCEPT ![r] = arg.kind]
          /\ heap_op' = [op |-> "init", reg |-> r]
    /\ UNCHANGED <<view, view_of>>
    /\ UNCHANGED <<hostVars, hostsVars, cliVars, loadVars>>

\* l = [...]; r = Hosts(l) (the caller's name l is bound to the new list), or
\* r = Hosts(l) for the list l the caller already holds
HeapInitList ==
    /\ \E r \in Registries :
          /\ reg_kind[r] = "unbound"
          /\ \E arg \in { a \in CtorArgs : a.kind = "list" /\ Len(a.value) < MaxListLen
                                           /\ Range(a.value) \subseteq HeapHosts } :
               \E fresh \in {b \in BOOLEAN : b \/ view # 0} :
                LET made_list == IF fresh THEN NewList(heap, arg.value)
                                 ELSE [heap |-> heap, ref |-> view]
                    res == hosts_init(made_list.heap, arg, made_list.ref)
                IN  /\ heap' = res.heap
                    /\ reg' = [reg EXCEPT ![r] = res.ref]
                    /\ reg_kind' = [reg_kind EXCEPT ![r] = arg.kind]
                    /\ view' = made_list.ref
                    /\ view_of' = IF fresh THEN "none" ELSE view_of
          /\ heap_op' = [op |-> "init", reg |-> r]
    /\ UNCHANGED <<hostVars, hostsVars, cliVars, loadVars>>

\* r.add(host)
HeapAdd ==
    /\ \E r \in Registries :
          /\ reg_kind[r] # "unbound"
          /\ Len(heap[reg[r]]) < MaxListLen
          /\ \E h \in HeapHosts : heap' = [heap EXCEPT ![reg[r]] = add(@, h)]
          /\ heap_op' = [op |-> "add", reg |-> r]
    /\ UNCHANGED <<reg, reg_kind, view, view_of>>
    /\ UNCHANGED <<hostVars, hostsVars, cliVars, loadVars>>

\* l = r.get_all()
HeapGetAll ==
    /\ \E r \in Registries :
          /\ reg_kind[r] # "unbound"
          /\ LET res == get_all(heap, reg[r])
             IN  /\ heap' = res.heap
                 /\ view' = res.ref
          /\ view_of' = r
          /\ heap_op' = [op |-> "get_all", reg |-> r]
    /\ UNCHANGED <<reg, reg_kind>>
    /\ UNCHANGED <<hostVars, hostsVars, cliVars, loadVars>>

\* l.append(host), by the caller
CallerAppend ==
    /\ view # 0
    /\ Len(heap[view]) < MaxListLen
    /\ \E h \in HeapHosts : heap' = [heap EXCEPT ![view] = Append(@, h)]
    /\ heap_op' = [op |-> "caller append", reg |-> "none"]
    /\ UNCHANGED <<reg, reg_kind, view, view_of>>
    /\ UNCHANGED <<hostVars, hostsVars, cliVars, loadVars>>

\* del l[i], by the caller
CallerDelete ==
    /\ view # 0
    /\ \E i \in DOMAIN heap[view] :
          heap' = [heap EXCEPT ![view] = SubSeq(@, 1, i - 1) \o SubSeq(@, i + 1, Len(@))]
    /\ heap_op' = [op |-> "caller delete", reg |-> "none"]
    /\ UNCHANGED <<reg, reg_kind, view, view_of>>
    /\ UNCHANGED <<hostVars, hostsVars, cliVars, loadVars>>

(***************************************************************************)
Init == HostIdle /\ HostsIdle /\ CliIdle /\ LoadIdle /\ HeapIdle

\* A Host: construction, validate(), magic_packet.
NextHost == HostInit \/ Validate \/ MagicPacket
SpecHost == Init /\ [][NextHost]_vars

\* A Hosts collection: construction, add(), get().
NextHosts == HostsInit \/ HostsAdd \/ HostsGet
SpecHosts == Init /\ [][NextHosts]_vars

\* Loading a configuration file.
NextLoad == LoadConfig
SpecLoad == Init /\ [][NextLoad]_vars

\* Registries and the caller's references to their lists.
NextHeap ==
    HeapInit \/ HeapInitList \/ HeapAdd \/ HeapGetAll \/ CallerAppend \/ CallerDelete
SpecHeap == Init /\ [][NextHeap]_vars

\* One run of the `host` command.
Next == HostCommand \/ WakeSent \/ WakeSendFails \/ HostReturn
Spec == Init /\ [][Next]_vars

(***************************************************************************)
(* Properties of Host (checked under SpecHost).                            *)
(***************************************************************************)
Messages(errs) == Range(errs)

\* The six bytes a canonical MAC string spells.
MacBytes(s) == [k \in 1..6 |-> IntHex(SubSeq(s, 3 * k - 2, 3 * k - 1))]

\* The Wake-on-LAN payload for six bytes: 6 bytes 0xFF, then the bytes 16 times.
WolPayload(bytes) == Repeat(<<255>>, 6) \o Repeat(bytes, 16)

\* C1: for every host whose normalized MAC is valid, magic_packet is exactly
\* 102 bytes: 6 bytes 0xFF followed by the host's 6 MAC bytes repeated exactly
\* 16 times.
C1_MagicPacketIs102Bytes ==
    (host # NoHost /\ packet # NoPacket /\ CanonicalShape(Mac(host))) =>
        /\ packet.raised = "none"
        /\ Len(packet.packet) = 102
        /\ packet.packet = WolPayload(MacBytes(Mac(host)))

\* C2: a Host constructed from any supported spelling of a 6-byte address
\* (colon, dash or dot separated pairs, dot separated groups of four, or bare
\* digits, in either letter case) has the canonical form of that address as
\* its mac.
C2_SpellingsNormalize ==
    host # NoHost =>
        \A a \in Addrs, st \in Styles, c \in Cases :
            raw_mac = Spell(a, st, c) => Mac(host) = Canonical(a)

C2_Witness ==
    /\ host # NoHost
    /\ raw_mac = MAC_TEST_DOT4
    /\ raw_mac = Spell(<<170, 187, 204, 0, 17, 34>>, "dot4", "lower")
    /\ Mac(host) = MAC_TEST

IpOk(h) == IPv4Address(h.ip)
MacOk(h) == CanonicalShape(Mac(h))
NameOk(h) == h.name # <<>>
PortOk(h) == h.port >= 0 /\ h.port <= 65535

\* C3: validate() runs all four checks: it returns iff no check fails, and
\* otherwise raises one error whose message list holds exactly the message of
\* each violated check, once, and no message of a check that passed.
C3_ValidateCollectsAll ==
    validated # "none" =>
        /\ validated = "returned" <=> (IpOk(host) /\ MacOk(host) /\ NameOk(host) /\ PortOk(host))
        /\ validated = "returned" => errors = <<>>
        /\ validated = "ValueError" => errors # <<>>
        /\ "Invalid IPv4 Address" \in Messages(errors) <=> ~IpOk(host)
        /\ "Invalid MAC Address" \in Messages(errors) <=> ~MacOk(host)
        /\ "Invalid name" \in Messages(errors) <=> ~NameOk(host)
        /\ "Invalid port" \in Messages(errors) <=> ~PortOk(host)
        /\ Messages(errors) \subseteq
              {"Invalid IPv4 Address", "Invalid MAC Address", "Invalid name", "Invalid port"}
        /\ Len(errors) = Cardinality(Messages(errors))

C3_Witness ==
    /\ validated = "ValueError"
    /\ NameOk(host)
    /\ Messages(errors) = {"Invalid IPv4 Address", "Invalid MAC Address", "Invalid port"}

\* The raw MAC argument without its separators.
Unseparated(s) == SelectSeq(s, LAMBDA c : c \notin {".", "-", ":"})

\* C4: the MAC check passes iff the host's normalized MAC is exactly six
\* colon-separated groups of two hex digits with nothing before or after; a
\* raw input that is not 12 characters long without its separators (13
\* characters, or a valid address followed by one more character) is rejected
\* with "Invalid MAC Address".
C4_MacCheckExact ==
    validated # "none" =>
        /\ "Invalid MAC Address" \notin Messages(errors) <=> CanonicalShape(Mac(host))
        /\ Len(Unseparated(raw_mac)) # 12 => "Invalid MAC Address" \in Messages(errors)

C4_Witness ==
    /\ validated = "ValueError"
    /\ raw_mac = MAC_TEST \o <<"A">>
    /\ Len(Unseparated(raw_mac)) = 13
    /\ "Invalid MAC Address" \in Messages(errors)

\* C5: the port check passes exactly for the ports p with 0 <= p <= 65535 and
\* reports "Invalid port" for every p < 0 and every p > 65535.
C5_PortRange ==
    validated # "none" =>
        ("Invalid port" \in Messages(errors) <=> (host.port < 0 \/ host.port > 65535))

C5_Witness ==
    /\ validated = "returned"
    /\ host.port = 65535

(***************************************************************************)
(* Properties of Hosts (checked under SpecHosts).                          *)
(***************************************************************************)
\* The positions of the hosts whose name equals the query, ignoring case.
Matching == {i \in DOMAIN hosts : Lower(hosts[i].name) = Lower(query)}

\* C6: get(name) compares names case-insensitively and returns the first host
\* in insertion order whose name matches, also when several hosts share the
\* name; when no host matches it returns None.
C6_GetFirstMatch ==
    last_op = "get" =>
        IF Matching = {} THEN got = 0
        ELSE got \in Matching /\ \A j \in Matching : got <= j

C6_Witness ==
    /\ last_op = "get"
    /\ Cardinality(Matching) >= 2
    /\ got = 2
    /\ hosts[got].name # query

\* C7: after constructing a registry with k hosts and n add calls, the
\* registry's sequence is the constructor-supplied hosts followed by the added
\* hosts in the order they were added, and count equals k + n.
C7_AddAppends ==
    made =>
        /\ hosts = ctor_hosts \o added
        /\ count(hosts) = Len(ctor_hosts) + Len(added)

C7_Witness ==
    /\ made
    /\ Len(ctor_hosts) = 1
    /\ Len(added) = 2
    /\ added[1] # added[2]
    /\ count(hosts) = 3

(***************************************************************************)
(* Properties of the `host` command (checked under Spec).                  *)
(***************************************************************************)
Known(name) == \E i \in DOMAIN config : Lower(config[i].name) = Lower(name)
FirstNamed(name) ==
    config[CHOOSE i \in DOMAIN config :
              /\ Lower(config[i].name) = Lower(name)
              /\ \A j \in 1..(i - 1) : Lower(config[j].name) # Lower(name)]
KnownNames == SelectSeq(hostnames, Known)
UnknownNames == SelectSeq(hostnames, LAMBDA n : ~Known(n))
Warnings == SelectSeq(log, LAMBDA r : r.level = "warning")
NamesGiven == hostnames # <<>> /\ ~AllRequested(hostnames)
NoSendFailed == \A k \in DOMAIN calls : calls[k].ok

\* C8: given a list of names, each name that matches no configured host
\* produces an unknown-host warning and is skipped, every name that does match
\* is dispatched with exactly one datagram, none is sent for the unknown names,
\* and the command succeeds (stated for the runs in which no send fails).
C8_UnknownNamesSkipped ==
    (pc = "done" /\ NamesGiven /\ NoSendFailed) =>
        /\ Warnings = [k \in DOMAIN UnknownNames |-> LogUnknown(UnknownNames[k])]
        /\ Len(sent) = Len(KnownNames)
        /\ \A k \in DOMAIN sent :
              /\ sent[k].ip = FirstNamed(KnownNames[k]).ip
              /\ sent[k].port = FirstNamed(KnownNames[k]).port
              /\ sent[k].payload = create_magic_packet(FirstNamed(KnownNames[k])).packet
        /\ exit_code = 0

\* C9: if the target set is empty after resolving the requested names (or all
\* hosts), the command reports that there are no hosts to wake as a non-fatal
\* outcome (exit code 0) and no datagram is sent.
C9_NoTargetsIsNotFatal ==
    (pc = "done" /\ hostnames # <<>> /\ hosts_to_wake = <<>>) =>
        /\ exit_code = 0
        /\ calls = <<>>
        /\ sent = <<>>

\* C10: the first send that fails ends the dispatch: it is the last send
\* attempted (no host after it is tried, and it is not tried again), and the
\* command has terminated with a non-zero exit code.
C10_FirstSendFailureAborts ==
    \A k \in DOMAIN calls :
        ~calls[k].ok =>
            /\ k = Len(calls)
            /\ \A j \in 1..(k - 1) : calls[j].host < calls[k].host
            /\ pc = "done"
            /\ exit_code > 0

C10_Witness ==
    /\ pc = "done"
    /\ Len(hosts_to_wake) = 3
    /\ Len(calls) = 2
    /\ calls[1].ok
    /\ ~calls[2].ok
    /\ Len(sent) = 1


\* The magic packet of a loaded host as wake.py's Host computes it.
MagicPacketOf(h) == magic_packet(Host(h.name, h.mac, h.ip, h.port)).packet
WakingLines == SelectSeq(log, LAMBDA r : r.level = "info")

\* C11: when no send fails, dispatch sends exactly one datagram per targeted
\* host, in target order (configuration order when all hosts are requested),
\* each addressed to (host.ip, host.port) with that host's magic packet (the
\* value of its magic_packet) as payload, and the "Waking host" line of a host
\* is logged before its datagram is sent.
C11_OneDatagramPerTarget ==
    NoSendFailed =>
        /\ Len(sent) <= Len(hosts_to_wake)
        /\ (pc = "done" /\ exit_code = 0) => Len(sent) = Len(hosts_to_wake)
        /\ \A k \in DOMAIN sent :
              /\ sent[k].ip = hosts_to_wake[k].ip
              /\ sent[k].port = hosts_to_wake[k].port
              /\ sent[k].payload = MagicPacketOf(hosts_to_wake[k])
        /\ WakingLines = [k \in DOMAIN sent |-> LogWaking(hosts_to_wake[k].name)]
        /\ \A j \in DOMAIN trace :
              trace[j].ev = "sendto" =>
                 \E i \in 1..(j - 1) : trace[i].ev = "log" /\ trace[i].host = trace[j].host
        /\ (hostnames # <<>> /\ AllRequested(hostnames)) => hosts_to_wake = config

C11_Witness ==
    /\ pc = "done"
    /\ exit_code = 0
    /\ AllRequested(hostnames)
    /\ Len(sent) = 2
    /\ sent[1].port # sent[2].port

\* C15: in one dispatch the UDP socket is opened exactly once, whatever the
\* number of target hosts, and has the broadcast and reuse-address options set
\* before the first send; every datagram goes through this one socket.
C15_OneSocketPerDispatch ==
    calls # <<>> =>
        /\ Len(sockets) = 1
        /\ {"SO_BROADCAST", "SO_REUSEADDR"} \subseteq sockets[1]
        /\ \A j \in DOMAIN trace :
              trace[j].ev \in {"sendto", "sendto raises"} => trace[j].socket = 1

(***************************************************************************)
(* Loading the configuration.                                              *)
(***************************************************************************)
\* A record the schema loads, and one it rejects.
Accepted(raw) == SchemaErrors(raw) = {}
Rejected(raw) == ~Accepted(raw)
LoadWarnings == SelectSeq(load_log, LAMBDA r : r.level = "warning")

\* C12: loading a non-empty list of host records never aborts, also when
\* every record is invalid: it returns the hosts of the valid records in their
\* original order (none when all are invalid) and logs one warning for each
\* invalid record, in order.
C12_LoadDropsInvalidRecords ==
    (load_outcome # "none" /\ raw_config.kind = "list" /\ raw_config.items # <<>>) =>
        LET valid == SelectSeq(raw_config.items, Accepted)
            invalid == SelectSeq(raw_config.items, Rejected)
        IN  /\ load_outcome = "returned"
            /\ loaded = [k \in DOMAIN valid |-> SchemaHost(valid[k])]
            /\ Len(LoadWarnings) = Len(invalid)
            /\ \A k \in DOMAIN invalid :
                  "name" \in DOMAIN invalid[k] => LoadWarnings[k].name = invalid[k].name

\* The four rules of Host.validate() on a loaded host.
Dispatchable(h) ==
    LET w == Host(h.name, h.mac, h.ip, h.port)
    IN  IpOk(w) /\ MacOk(w) /\ NameOk(w) /\ PortOk(w)

\* C13: no invalid host is ever used: every host of the loaded configuration,
\* and so every host the command targets and sends a datagram for, has a valid
\* IPv4 address, a MAC address of six colon-separated hex pairs, a non-empty
\* name and a port in 0..65535.
C13_NoInvalidHostUsed ==
    pc # "idle" =>
        /\ \A i \in DOMAIN config : Dispatchable(config[i])
        /\ \A k \in DOMAIN hosts_to_wake : Dispatchable(hosts_to_wake[k])

\* A record without the keys that are no field of a host.
KnownPart(raw) == [k \in DOMAIN raw \cap SchemaFields |-> raw[k]]
HasUnknownKey(raw) == UnknownKeys(raw) # {}
LoadableWithoutUnknown(raw) == Accepted(KnownPart(raw))

\* C14: an unrecognised key does not invalidate a record: the hosts loaded
\* from a list are those of the records whose recognised fields are valid, in
\* order, a record with an unknown key included (loaded from its recognised
\* fields), and a warning is logged for each record with an unknown key.
C14_UnknownKeyStillLoaded ==
    (load_outcome # "none" /\ raw_config.kind = "list"
        /\ \E i \in DOMAIN raw_config.items : HasUnknownKey(raw_config.items[i])) =>
        LET kept == SelectSeq(raw_config.items, LoadableWithoutUnknown)
        IN  /\ loaded = [k \in DOMAIN kept |-> SchemaHost(KnownPart(kept[k]))]
            /\ Len(LoadWarnings) >=
                  Len(SelectSeq(raw_config.items, HasUnknownKey))

(***************************************************************************)
(* Registries and shared lists.                                            *)
(***************************************************************************)
\* C16: get_all() returns the registry's own list, not a copy: from the call
\* on, whatever the caller appends to or deletes from the returned list, the
\* returned list and the registry's contents are the same sequence, and count,
\* get and a later get_all of the registry answer for that sequence.
C16_GetAllIsLive ==
    view_of # "none" =>
        LET returned == heap[view]
            mine == heap[reg[view_of]]
            again == get_all(heap, reg[view_of])
        IN  /\ mine = returned
            /\ count(mine) = Len(returned)
            /\ \A n \in QueryNames : get(mine, n) = get(returned, n)
            /\ again.heap[again.ref] = returned

\* a registry made from one Host whose last host the caller deleted through
\* the list get_all() returned
C16_Witness ==
    /\ view_of # "none"
    /\ reg_kind[view_of] = "Host"
    /\ heap_op.op = "caller delete"
    /\ count(heap[reg[view_of]]) = 0

OwnList == {"None", "Host"}

\* C17: for two registries each constructed with no argument or with a single
\* Host, an add on one leaves the contents and the count of the other
\* unchanged.
C17_RegistriesIndependent ==
    [][\A r \in Registries : \A o \in Registries \ {r} :
          (/\ heap_op'.op = "add"
           /\ heap_op'.reg = r
           /\ reg_kind[r] \in OwnList
           /\ reg_kind[o] \in OwnList)
          => /\ heap'[reg'[o]] = heap[reg[o]]
             /\ count(heap'[reg'[o]]) = count(heap[reg[o]])]_vars

\* both registries made without argument, and the last call an add that
\* filled one of them while the other is still empty
C17_Witness ==
    /\ \A r \in Registries : reg_kind[r] = "None"
    /\ heap_op.op = "add"
    /\ count(heap[reg[heap_op.reg]]) = MaxListLen
    /\ \E o \in Registries : count(heap[reg[o]]) = 0
====
